---- MODULE Spec2Model ----
(***************************************************************************)
(* Model of api/vald-sync.js: the VALD ForceDecks sync function.           *)
(*                                                                         *)
(* One Node.js process runs the module.  Its state is the module-level     *)
(* tokenCache, process.env, the clock read by Date.now(), and, while a     *)
(* request is being handled, the locals of handler() and of the async      *)
(* functions it awaits.  JavaScript runs one task at a time and switches   *)
(* only at an await, so every action below is the code that runs between   *)
(* two awaits: the arrival of a response (or of a request) together with   *)
(* everything the code does synchronously after it.                        *)
(*                                                                         *)
(* A "fiber" is one pending call of apiFetch()/getToken(): fiber 0 is the  *)
(* call the handler itself awaits, fibers 1..BATCH_SIZE are the            *)
(* getTrials() calls of the batch handed to Promise.allSettled.            *)
(*                                                                         *)
(* Time is in milliseconds, as Date.now().  modifiedDateUtc timestamps are *)
(* ordinals (0 stands for DEFAULT_START); recordedDateUtc is a calendar    *)
(* date and a minute of the day.                                           *)
(***************************************************************************)
EXTENDS Integers, Sequences, FiniteSets, TLC

VARIABLES
    tokenCache,   \* module-level { accessToken, expiresAt }
    env,          \* process.env: are VALD_CLIENT_ID / VALD_CLIENT_SECRET set
    now,          \* Date.now()
    ticks,        \* how often the clock has advanced (bounds the model)
    world,        \* what surrounds the process: the VALD API's data and answers, the queries sent
    nreq,         \* requests received so far (bounds the model)
    req,          \* the request being handled: method and query
    hpc,          \* where handler() is waiting
    startTime,    \* handler: const startTime
    fib,          \* the pending apiFetch()/getToken() calls
    tenantId,     \* handler: const tenantId
    profiles,     \* handler: const profiles
    all,          \* getAllTests: const all
    cursor,       \* getAllTests: let cursor
    i,            \* getAllTests: loop counter
    tests,        \* handler: let tests
    bi,           \* handler: the batch loop's i
    processed,    \* handler: let processed
    errors,       \* handler: let errors
    skipped,      \* handler: let skipped
    cmj,          \* handler: const cmj, profile id -> records
    hop,          \* handler: const hop, profile id -> records
    res,          \* the response written to res
    net           \* history of the requests sent upstream (not program state)

vars == <<tokenCache, env, now, ticks, world, nreq, req, hpc, startTime, fib,
          tenantId, profiles, all, cursor, i, tests, bi, processed, errors,
          skipped, cmj, hop, res, net>>

listVars == <<all, cursor, i>>
syncVars == <<tests, bi, processed, errors, skipped, cmj, hop>>

-----------------------------------------------------------------------------
(* Bounds of the model *)

\* Clock advances per behaviour.
MaxTicks == 1

\* Requests the process handles per behaviour.
MaxRequests == 2

\* Tests the upstream holds in a full sync.
MaxTests == 3

\* handler: const BATCH_SIZE = 15, scaled down: each of the BATCH_SIZE
\* concurrent getTrials() calls interleaves with all the others.
BATCH_SIZE == 2

-----------------------------------------------------------------------------
(* Program constants *)

\* getToken: tokenCache.expiresAt > Date.now() + 60000
TOKEN_SKEW_MS == 60000

\* getToken: (d.expires_in || 3600)
DEFAULT_EXPIRES_IN == 3600

\* getToken: * 1000
MS_PER_S == 1000

\* getAllTests: for (let i = 0; i < 100; i++)
MAX_PAGES == 100

\* getAllTests: if (tests.length < 50) break
PAGE_SIZE == 50

\* handler: Date.now() - startTime > 52000
DEADLINE_MS == 52000

\* const DEFAULT_START = "2025-06-01T00:00:00Z", the origin of the ordinals
DEFAULT_START == 0

\* handler, test=tests: since || "2026-02-01T00:00:00Z"
TESTS_DEFAULT_START == 1

AuthUrls == <<"AUTH_URL", "AUTH_URL_OLD">>

-----------------------------------------------------------------------------
(* Values *)

Min(a, b) == IF a < b THEN a ELSE b

\* tokenCache.accessToken === null, or an undefined access_token
NoToken == ""

\* d.expires_in undefined
Absent == -1

\* JSON bodies: null (a 204) or an array of items; the wrapper object of
\* d?.tests || d, d?.tenants || d, d?.profiles || d is unwrapped.
NullBody == [null |-> TRUE, items |-> <<>>]
Body(s) == [null |-> FALSE, items |-> s]

NoUrl == [kind |-> "none", arg |-> 0]
Url(k, a) == [kind |-> k, arg |-> a]

NoOut == [status |-> "pending", trials |-> <<>>]

NoRes == [status |-> 0, kind |-> "", success |-> FALSE, error |-> "", complete |-> FALSE,
          processed |-> 0, errors |-> 0, skipped |-> 0, totalTests |-> 0]

\* No call pending.
IdleFiber == [pc |-> "idle", url |-> NoUrl, ep |-> 0, auths |-> <<>>,
              token |-> NoToken, sent |-> 0, val |-> NullBody, err |-> "", out |-> NoOut]

Fibers == 0..BATCH_SIZE

-----------------------------------------------------------------------------
(* Inputs: what the upstream may answer *)

\* The bodies the token endpoints answer a 2xx with.
AuthBodies ==
    { [access_token |-> "tokA", expires_in |-> Absent],
      [access_token |-> "tokA", expires_in |-> 0],
      [access_token |-> "tokB", expires_in |-> 30],
      [access_token |-> "tokB", expires_in |-> 120] }

NoAuthBody == [access_token |-> NoToken, expires_in |-> Absent]

\* A token endpoint answers 2xx with a body, a non-2xx status, or the fetch
\* (or the parse of the body) throws.
AuthOutcomes ==
    { [kind |-> "ok", body |-> b] : b \in AuthBodies }
        \cup { [kind |-> k, body |-> NoAuthBody] : k \in {"bad", "thrown"} }

\* One line of the record a getToken() call keeps of the token requests it
\* sent: the endpoint, and how it answered.
Asked(url) == [url |-> url, out |-> "pending", body |-> NoAuthBody]

Statuses == {200, 204, 429, 500}

\* How far the clock moves in one advance.
Deltas == {52000, 60000}

-----------------------------------------------------------------------------
(* getToken, lines 42-70 *)

\* CacheHit without the 60 seconds of margin
CacheHit_NoMargin ==
    tokenCache.accessToken # NoToken /\ tokenCache.expiresAt > now

\* line 43: the condition under which the cached token is returned
CacheHit ==
    tokenCache.accessToken # NoToken /\ tokenCache.expiresAt > now + TOKEN_SKEW_MS

\* line 65: (d.expires_in || 3600)
ExpiresIn(e) == IF e = Absent \/ e = 0 THEN DEFAULT_EXPIRES_IN ELSE e

\* getToken() asking the endpoint before it looks at the environment
getToken_AskFirst(fr) ==
    LET f0 == [fr EXCEPT !.auths = <<>>, !.err = "", !.token = NoToken, !.ep = 0]
    IN  IF CacheHit
          THEN [f0 EXCEPT !.pc = "token", !.token = tokenCache.accessToken]
          ELSE [f0 EXCEPT !.pc = "auth", !.ep = 1, !.auths = <<Asked(AuthUrls[1])>>]

\* lines 43-58: getToken() up to its first await.  The call either returns
\* the cached token, throws for the missing environment, or has sent the
\* request to the first endpoint.
getToken(fr) ==
    LET f0 == [fr EXCEPT !.auths = <<>>, !.err = "", !.token = NoToken, !.ep = 0]
    IN  IF CacheHit
          THEN [f0 EXCEPT !.pc = "token", !.token = tokenCache.accessToken]
          ELSE IF ~env.cid \/ ~env.sec
                 THEN [f0 EXCEPT !.pc = "err", !.err = "Missing VALD"]
                 ELSE [f0 EXCEPT !.pc = "auth", !.ep = 1,
                                 !.auths = <<Asked(AuthUrls[1])>>]

\* authStep giving up after the first endpoint
authStep_NoFallback(fr, o) ==
    LET got == [fr EXCEPT !.auths[Len(fr.auths)] = [@ EXCEPT !.out = o.kind, !.body = o.body]]
    IN  IF o.kind = "ok"
          THEN [got EXCEPT !.pc = "token", !.token = o.body.access_token]
          ELSE [got EXCEPT !.pc = "err", !.err = "Authentication"]

\* lines 50-69: the loop over the endpoints, resumed by the answer o of the
\* endpoint waited for.  r.ok: cache and return; otherwise continue with the
\* next endpoint, and throw after the last.
authStep(fr, o) ==
    LET got == [fr EXCEPT !.auths[Len(fr.auths)] = [@ EXCEPT !.out = o.kind, !.body = o.body]]
    IN  IF o.kind = "ok"
          THEN [got EXCEPT !.pc = "token", !.token = o.body.access_token]
          ELSE IF fr.ep < Len(AuthUrls)
                 THEN [got EXCEPT !.ep = fr.ep + 1,
                                  !.auths = Append(got.auths, Asked(AuthUrls[fr.ep + 1]))]
                 ELSE [got EXCEPT !.pc = "err", !.err = "Authentication"]

\* line 65: the cache after the answer o
authCache(o) ==
    IF o.kind = "ok"
      THEN [accessToken |-> o.body.access_token,
            expiresAt |-> now + ExpiresIn(o.body.expires_in) * MS_PER_S]
      ELSE tokenCache

-----------------------------------------------------------------------------
(* apiFetch, lines 72-78, and getTrials, lines 106-110 *)

\* getTrials without its catch: what apiFetch() throws rejects the promise
getTrials_NoCatch(fr) ==
    IF fr.pc = "err" THEN [status |-> "rejected", trials |-> <<>>]
    ELSE IF fr.val.null THEN [status |-> "fulfilled", trials |-> <<>>]
    ELSE [status |-> "fulfilled", trials |-> fr.val.items]

\* lines 107-109: what the getTrials() promise settles with, given the
\* apiFetch() call it awaited: its value, [] for null, [] for anything thrown.
getTrials(fr) ==
    IF fr.pc = "err" \/ fr.val.null
      THEN [status |-> "fulfilled", trials |-> <<>>]
      ELSE [status |-> "fulfilled", trials |-> fr.val.items]

\* A finished apiFetch() of a trials URL settles the getTrials() that awaits it.
Settle(fr) ==
    IF fr.url.kind = "trials" /\ fr.pc \in {"ret", "err"}
      THEN [fr EXCEPT !.out = getTrials(fr)]
      ELSE fr

\* line 73: apiFetch(url) up to its first await, inside getToken()
apiFetch(url) == Settle(getToken([IdleFiber EXCEPT !.url = url]))

\* lines 75-77: apiFetch() resumed by the answer o to its request
apiFetchResult(fr, o) ==
    IF o.thrown THEN [fr EXCEPT !.pc = "err", !.err = "network"]
    ELSE IF o.status = 204 THEN [fr EXCEPT !.pc = "ret", !.val = NullBody]
    ELSE IF o.status # 200
           THEN [fr EXCEPT !.pc = "err",
                           !.err = IF o.status = 429 THEN "API 429" ELSE "API 500"]
           ELSE [fr EXCEPT !.pc = "ret", !.val = o.body]


-----------------------------------------------------------------------------
(* The metric maps, lines 17-38 *)

CMJ_MAP ==
    [ JUMP_HEIGHT_INCHES |-> "jumpHeight",
      RSI_MODIFIED |-> "rsiMod",
      BODYMASS_RELATIVE_TAKEOFF_POWER |-> "peakPowerBM",
      ECCENTRIC_BRAKING_RFD |-> "eccBrakingRFD",
      BODY_WEIGHT_LBS |-> "bodyweightLbs",
      COUNTERMOVEMENT_DEPTH |-> "depth",
      CONCENTRIC_IMPULSE |-> "conImpulse",
      ECCENTRIC_BRAKING_IMPULSE |-> "eccBrakingImpulse",
      PEAK_CONCENTRIC_FORCE |-> "conPeakForce",
      CONCENTRIC_RFD |-> "conRFD" ]

HOP_MAP ==
    [ HOP_BEST_RSI |-> "rsi",
      HOP_BEST_FLIGHT_TIME |-> "flightTime",
      HOP_BEST_CONTACT_TIME |-> "contactTime",
      BODY_WEIGHT_LBS |-> "bodyweightLbs" ]

ASYM_KEYS == {"CONCENTRIC_IMPULSE", "ECCENTRIC_BRAKING_IMPULSE", "PEAK_CONCENTRIC_FORCE"}

-----------------------------------------------------------------------------
(* Classification and extraction, lines 112-147 *)

\* One entry of trial.results.  Values are integers: a depth in hundredths,
\* a body weight in whole kilograms.
Entry(code, limb, repeat, value) ==
    [result |-> code, limb |-> limb, repeat |-> repeat, value |-> value]

\* getTestType looking for the cmj codes before the hop code
getTestType_CmjFirst(results) ==
    LET keys == { results[k].result : k \in 1..Len(results) }
    IN  IF "RSI_MODIFIED" \in keys \/ "JUMP_HEIGHT_INCHES" \in keys THEN "cmj"
        ELSE IF "HOP_BEST_RSI" \in keys THEN "hop"
        ELSE "unknown"

\* lines 112-117
getTestType(results) ==
    LET keys == { results[k].result : k \in 1..Len(results) }
    IN  IF "HOP_BEST_RSI" \in keys THEN "hop"
        ELSE IF "RSI_MODIFIED" \in keys \/ "JUMP_HEIGHT_INCHES" \in keys THEN "cmj"
        ELSE "unknown"

\* line 127: +(kg * 2.20462).toFixed(1), in tenths of a pound
ToLbs(kg) == (kg * 220462 + 5000) \div 10000

\* lines 119-129: the entries are applied in order, a later one overwriting
\* an earlier one of the same field.
RECURSIVE extractFrom(_, _, _, _)
extractFrom(results, map, k, out) ==
    IF k > Len(results) THEN out
    ELSE LET r == results[k]
         IN  IF r.limb = "Trial" /\ r.repeat = 0 /\ r.result \in DOMAIN map
               THEN extractFrom(results, map, k + 1,
                                (map[r.result] :> r.value) @@ out)
               ELSE extractFrom(results, map, k + 1, out)

extract(results, map) ==
    LET out == extractFrom(results, map, 1, <<>>)
    IN  IF "bodyweightLbs" \in DOMAIN out
          THEN ("bodyweightLbs" :> ToLbs(out["bodyweightLbs"])) @@ out
          ELSE out

\* isSquatJump reading only a depth of zero as a squat jump
isSquatJump_ZeroOnly(metrics) ==
    "depth" \in DOMAIN metrics /\ metrics["depth"] = 0

\* lines 132-134
isSquatJump(metrics) ==
    "depth" \notin DOMAIN metrics \/ metrics["depth"] = 0

AsymShort(key) ==
    IF key = "CONCENTRIC_IMPULSE" THEN "conImpulse"
    ELSE IF key = "ECCENTRIC_BRAKING_IMPULSE" THEN "eccBrakingImpulse"
    ELSE "conPeakForce"

\* lines 136-147
RECURSIVE extractAsymFrom(_, _, _)
extractAsymFrom(results, k, out) ==
    IF k > Len(results) THEN out
    ELSE LET r == results[k]
         IN  IF r.repeat # 0 \/ r.result \notin ASYM_KEYS
               THEN extractAsymFrom(results, k + 1, out)
             ELSE IF r.limb = "Left"
               THEN extractAsymFrom(results, k + 1,
                                    ((AsymShort(r.result) \o "L") :> r.value) @@ out)
             ELSE IF r.limb = "Right"
               THEN extractAsymFrom(results, k + 1,
                                    ((AsymShort(r.result) \o "R") :> r.value) @@ out)
             ELSE extractAsymFrom(results, k + 1, out)

extractAsym(results) == extractAsymFrom(results, 1, <<>>)


-----------------------------------------------------------------------------
(* Dates: fmtDate, lines 149-154, and dateCmp, lines 337-341 *)

\* recordedDateUtc: a calendar day and the minute of that day, in UTC
Utc(y, mo, d, min) == [y |-> y, mo |-> mo, d |-> d, min |-> min]

IsLeap(y) == (y % 4 = 0 /\ y % 100 # 0) \/ y % 400 = 0

DaysIn(y, mo) ==
    IF mo = 2 THEN (IF IsLeap(y) THEN 29 ELSE 28)
    ELSE IF mo \in {4, 6, 9, 11} THEN 30 ELSE 31

NextDay(t) ==
    IF t.d < DaysIn(t.y, t.mo) THEN [t EXCEPT !.d = t.d + 1]
    ELSE IF t.mo < 12 THEN [t EXCEPT !.d = 1, !.mo = t.mo + 1]
    ELSE [t EXCEPT !.d = 1, !.mo = 1, !.y = t.y + 1]

PrevDay(t) ==
    IF t.d > 1 THEN [t EXCEPT !.d = t.d - 1]
    ELSE IF t.mo > 1 THEN [t EXCEPT !.d = DaysIn(t.y, t.mo - 1), !.mo = t.mo - 1]
    ELSE [t EXCEPT !.d = 31, !.mo = 12, !.y = t.y - 1]

\* line 152: d.setMinutes(d.getMinutes() + offset) carries into the day, the
\* month and the year.
RECURSIVE AddDays(_, _)
AddDays(t, n) ==
    IF n = 0 THEN t
    ELSE IF n > 0 THEN AddDays(NextDay(t), n - 1)
    ELSE AddDays(PrevDay(t), n + 1)

setMinutes(t, offset) ==
    LET total == t.min + offset
    IN  [AddDays(t, total \div 1440) EXCEPT !.min = total % 1440]

\* String(n): the decimal digits of n >= 0
RECURSIVE Digits(_)
Digits(n) == IF n < 10 THEN <<n>> ELSE Append(Digits(n \div 10), n % 10)

\* .padStart(2, "0")
PadStart2(ds) == IF Len(ds) < 2 THEN <<0>> \o ds ELSE ds

\* lines 149-154.  A date string is the sequence of its "/"-separated
\* parts, each the sequence of its digits; "" is the empty sequence.  utc
\* is <<>> when the test has no recordedDateUtc, offset is <<>> when it has
\* no recordedDateOffset.  The process runs in UTC, so the local getters
\* getMonth/getDate/getFullYear read the UTC calendar.
fmtDate(utc, offset) ==
    IF utc = <<>> THEN <<>>
    ELSE LET d == IF offset # <<>> THEN setMinutes(utc[1], offset[1]) ELSE utc[1]
         IN  <<PadStart2(Digits(d.mo)), PadStart2(Digits(d.d)), Digits(d.y)>>

\* Number(s) of a digit string; a number or NaN
NaN == [nan |-> TRUE, v |-> 0]
Num(n) == [nan |-> FALSE, v |-> n]

RECURSIVE DigitsValue(_)
DigitsValue(ds) ==
    IF ds = <<>> THEN 0 ELSE 10 * DigitsValue(SubSeq(ds, 1, Len(ds) - 1)) + ds[Len(ds)]

\* a.date.split("/").map(Number)[k]: "".split("/") is [""], Number("") is 0,
\* and a missing element is undefined
Part(date, k) ==
    IF date = <<>> THEN (IF k = 1 THEN Num(0) ELSE NaN)
    ELSE Num(DigitsValue(date[k]))

\* x - y, with undefined - n = NaN
Minus(x, y) == IF x.nan \/ y.nan THEN NaN ELSE Num(x.v - y.v)

\* x || y
OrElse(x, y) == IF x.nan \/ x.v = 0 THEN y ELSE x

\* dateCmp comparing the dates as they are written: month, day, year
dateCmp_AsWritten(a, b) ==
    LET c == OrElse(Minus(Part(a.date, 1), Part(b.date, 1)),
                    OrElse(Minus(Part(a.date, 2), Part(b.date, 2)),
                           Minus(Part(a.date, 3), Part(b.date, 3))))
    IN  IF c.nan THEN 0 ELSE c.v

\* lines 337-341: (ay - by) || (am - bm) || (ad - bd); sort reads NaN as 0
dateCmp(a, b) ==
    LET c == OrElse(Minus(Part(a.date, 3), Part(b.date, 3)),
                    OrElse(Minus(Part(a.date, 1), Part(b.date, 1)),
                           Minus(Part(a.date, 2), Part(b.date, 2))))
    IN  IF c.nan THEN 0 ELSE c.v

\* Array.prototype.sort(dateCmp): a stable sort
RECURSIVE Insert(_, _)
Insert(sorted, x) ==
    IF sorted = <<>> THEN <<x>>
    ELSE IF dateCmp(sorted[Len(sorted)], x) <= 0 THEN Append(sorted, x)
    ELSE Append(Insert(SubSeq(sorted, 1, Len(sorted) - 1), x), sorted[Len(sorted)])

RECURSIVE sort(_)
sort(a) ==
    IF a = <<>> THEN <<>>
    ELSE Insert(sort(SubSeq(a, 1, Len(a) - 1)), a[Len(a)])

\* lines 342-343: every profile's array sorted
sortAll(byPid) == [p \in DOMAIN byPid |-> sort(byPid[p])]


-----------------------------------------------------------------------------
(* Inputs: the data the VALD API holds *)

\* When the tests of the upstream were recorded: test 1 after the turn of
\* the year, test 2 on its eve but past midnight in its own time zone,
\* test 3 in the first hour of the eve and a zone behind UTC, test 4 with
\* no offset.
Recorded ==
    << [utc |-> Utc(2026, 1, 2, 600), offset |-> <<0>>],
       [utc |-> Utc(2025, 12, 31, 1410), offset |-> <<60>>],
       [utc |-> Utc(2025, 12, 31, 30), offset |-> <<-60>>],
       [utc |-> Utc(2026, 3, 1, 0), offset |-> <<>>] >>

\* The test with id n, modified at ordinal mod.  Odd tests belong to
\* profile p1, even tests to p2.
Test(n, mod) ==
    LET r == Recorded[((n - 1) % Len(Recorded)) + 1]
    IN  [testId |-> n,
         profileId |-> IF n % 2 = 1 THEN "p1" ELSE "p2",
         modifiedDateUtc |-> mod,
         recordedDateUtc |-> <<r.utc>>,
         recordedDateOffset |-> r.offset]

\* The tests of an upstream given by its shape: shape[k] tests share the
\* k-th modification time; ids ascend with the modification time.
RECURSIVE TestsOf(_, _, _)
TestsOf(shape, k, first) ==
    IF k > Len(shape) THEN <<>>
    ELSE [n \in 1..shape[k] |-> Test(first + n - 1, TESTS_DEFAULT_START + k)]
            \o TestsOf(shape, k + 1, first + shape[k])

\* Upstreams for the listing: none, a short page, exactly one full page, a
\* full page ending on a new time, two times sharing a page, a full page
\* of one time followed by another test.
ListShapes == { <<>>, <<1>>, <<50>>, <<49, 1>>, <<30, 30>>, <<50, 1>> }

\* Upstreams for a full sync: up to MaxTests tests, each modified at its
\* own time.
SyncShapes == { [k \in 1..n |-> 1] : n \in 0..MaxTests }

\* The test of the upstream a reference stands for.  The arrays of tests
\* the process holds (a page, all, tests) hold references to the objects
\* parsed from the answer; a reference is written as the testId.
TestAt(w, id) == w.tests[id]

\* GET /tests?modifiedFromUtc=c: the first page of the tests modified at
\* (inclusive) or after c, in ascending order of modification.
TestsPageOf(w, c) ==
    LET from == { k \in 1..Len(w.tests) :
                    IF w.inclusive THEN w.tests[k].modifiedDateUtc >= c
                                   ELSE w.tests[k].modifiedDateUtc > c }
    IN  IF from = {} THEN <<>>
        ELSE LET lo == CHOOSE k \in from : \A j \in from : k <= j
             IN  [n \in 1..(Min(lo + PAGE_SIZE - 1, Len(w.tests)) - lo + 1) |->
                    w.tests[lo + n - 1].testId]

\* The results of the trials the upstream may return for a test.
CmjResults ==
    << Entry("JUMP_HEIGHT_INCHES", "Trial", 0, 12),
       Entry("COUNTERMOVEMENT_DEPTH", "Trial", 0, 30),
       Entry("PEAK_CONCENTRIC_FORCE", "Left", 0, 500),
       Entry("PEAK_CONCENTRIC_FORCE", "Right", 0, 520) >>

SquatResults ==
    << Entry("RSI_MODIFIED", "Trial", 0, 5),
       Entry("COUNTERMOVEMENT_DEPTH", "Trial", 0, 0) >>

NoDepthResults == << Entry("RSI_MODIFIED", "Trial", 0, 5) >>

HopResults ==
    << Entry("HOP_BEST_RSI", "Trial", 0, 2),
       Entry("BODY_WEIGHT_LBS", "Trial", 0, 70) >>

HopCmjResults ==
    << Entry("JUMP_HEIGHT_INCHES", "Trial", 0, 12),
       Entry("COUNTERMOVEMENT_DEPTH", "Trial", 0, 30),
       Entry("HOP_BEST_RSI", "Trial", 0, 2) >>

UnknownResults == << Entry("BODY_WEIGHT_LBS", "Trial", 0, 70) >>

Trials(results) == << [results |-> results] >>

AllTrialBodies ==
    { <<>>, Trials(CmjResults), Trials(SquatResults), Trials(NoDepthResults),
      Trials(HopResults), Trials(HopCmjResults), Trials(UnknownResults) }

FewTrialBodies == { <<>>, Trials(CmjResults) }

TenantBodies == { <<>>, << [id |-> "tenant1"] >> }

ProfileBodies == { <<>>, << [profileId |-> "p1"], [profileId |-> "p2"] >> }

\* The bodies a 200 answer to url may carry.
BodiesOf(w, url) ==
    IF url.kind = "tenants" THEN { Body(b) : b \in TenantBodies }
    ELSE IF url.kind = "profiles" THEN { Body(b) : b \in ProfileBodies }
    ELSE IF url.kind = "tests" THEN { Body(TestsPageOf(w, url.arg)) }
    ELSE { Body(b) : b \in w.trials }

\* The answers to a request for url: a status with a body, or a thrown fetch.
ApiOutcomes(w, url) ==
    { [thrown |-> FALSE, status |-> 200, body |-> b] : b \in BodiesOf(w, url) }
        \cup { [thrown |-> FALSE, status |-> st, body |-> NullBody] :
                 st \in Statuses \ {200} }
        \cup { [thrown |-> TRUE, status |-> 0, body |-> NullBody] }


-----------------------------------------------------------------------------
(* The parts of handler(), lines 157-378 *)

\* The queries a client may send.  test is "" when the query has no test
\* parameter or one the handler does not know; since is Absent or an ordinal.
Query(method, test, since) == [method |-> method, test |-> test, since |-> since]

NoQuery == Query("", "", Absent)

AllQueries ==
    { Query("OPTIONS", "", Absent) }
        \cup { Query("GET", t, Absent) : t \in {"auth", "tenant", "profiles", "tests", ""} }

\* since || dflt
Since(q, dflt) == IF q.since = Absent THEN dflt ELSE q.since

Ok(kind) == [NoRes EXCEPT !.status = 200, !.success = TRUE, !.kind = kind]

\* lines 369-377
Failed(message) == [NoRes EXCEPT !.status = 500, !.error = message, !.kind = "error"]

AllIdle == [f \in Fibers |-> IdleFiber]

NoLocals == [tests |-> <<>>, bi |-> 0, processed |-> 0, errors |-> 0, skipped |-> 0,
             cmj |-> <<>>, hop |-> <<>>]

Locals == [tests |-> tests, bi |-> bi, processed |-> processed, errors |-> errors,
           skipped |-> skipped, cmj |-> cmj, hop |-> hop]

\* lines 325-326, 329-330: if (!c[pid]) c[pid] = []; c[pid].push(rec)
Push(c, pid, rec) ==
    IF pid \in DOMAIN c THEN [c EXCEPT ![pid] = Append(@, rec)]
    ELSE (pid :> <<rec>>) @@ c

\* tallyFailed counting the test as processed too
tallyFailed_AlsoProcessed(S) == [S EXCEPT !.errors = @ + 1, !.processed = @ + 1]

\* lines 313-316: errors++; continue
tallyFailed(S) == [S EXCEPT !.errors = @ + 1]

\* lines 312-332: one result of Promise.allSettled tallied; t is the test,
\* out what its getTrials() settled with.
tally(S, t, out) ==
    IF out.status # "fulfilled" \/ Len(out.trials) = 0
      THEN tallyFailed(S)
      ELSE LET trial == out.trials[1]
               type == getTestType(trial.results)
               date == fmtDate(t.recordedDateUtc, t.recordedDateOffset)
           IN  IF type = "cmj"
                 THEN LET m == extract(trial.results, CMJ_MAP)
                      IN  IF isSquatJump(m)
                            THEN [S EXCEPT !.skipped = @ + 1, !.processed = @ + 1]
                            ELSE [S EXCEPT
                                    !.cmj = Push(@, t.profileId,
                                                 [date |-> date,
                                                  metrics |-> extractAsym(trial.results) @@ m]),
                                    !.processed = @ + 1]
               ELSE IF type = "hop"
                 THEN [S EXCEPT
                         !.hop = Push(@, t.profileId,
                                      [date |-> date,
                                       metrics |-> extract(trial.results, HOP_MAP)]),
                         !.processed = @ + 1]
               ELSE [S EXCEPT !.processed = @ + 1]

\* lines 311-333: the results of the batch tallied in the order of the batch
RECURSIVE tallyFrom(_, _, _)
tallyFrom(S, k, n) ==
    IF k > n THEN S
    ELSE tallyFrom(tally(S, TestAt(world, S.tests[S.bi + k]), fib[k].out), k + 1, n)

\* line 306: the size of tests.slice(i, i + BATCH_SIZE)
BatchLen(S) == Min(BATCH_SIZE, Len(S.tests) - S.bi)

\* TimedOut with the check at the top of the loop left out
TimedOut_Never == FALSE

\* line 301
TimedOut == now - startTime > DEADLINE_MS

\* line 299 and line 301: another batch is started
MoreBatches(S) == S.bi < Len(S.tests) /\ ~TimedOut

\* lines 345-367
SyncResponse(S) ==
    [Ok("sync") EXCEPT !.complete = ~(S.processed < Len(S.tests)),
                       !.totalTests = Len(S.tests), !.processed = S.processed,
                       !.skipped = S.skipped, !.errors = S.errors]

\* The response is written and handler() returns.
Respond(r) ==
    /\ hpc' = "idle"
    /\ fib' = AllIdle
    /\ res' = r

\* handler() awaits the apiFetch() of url.
Await(pc, url) ==
    /\ hpc' = pc
    /\ fib' = [fib EXCEPT ![0] = apiFetch(url)]
    /\ res' = res

\* lines 299-367, from the top of the batch loop with the locals S: either
\* the next batch is started (every getTrials() of it runs to its first
\* await), or the loop is left, the arrays are sorted and the response is
\* written.
Batches(S) ==
    /\ tests' = S.tests
    /\ bi' = S.bi
    /\ processed' = S.processed
    /\ errors' = S.errors
    /\ skipped' = S.skipped
    /\ IF MoreBatches(S)
         THEN /\ hpc' = "batch"
              /\ fib' = [f \in Fibers |->
                           IF f >= 1 /\ f <= BatchLen(S)
                             THEN apiFetch(Url("trials", TestAt(world, S.tests[S.bi + f]).testId))
                             ELSE IdleFiber]
              /\ cmj' = S.cmj
              /\ hop' = S.hop
              /\ res' = res
         ELSE /\ cmj' = sortAll(S.cmj)
              /\ hop' = sortAll(S.hop)
              /\ Respond(SyncResponse(S))

\* getAllTests() is entered from the cursor c: lines 93-96.
Listing(c) ==
    /\ all' = <<>>
    /\ cursor' = c
    /\ i' = 0
    /\ Await("tests", Url("tests", c))
    /\ UNCHANGED syncVars

\* getAllTests() returns the tests a: mode test=tests answers, lines
\* 232-237; a full sync goes on to the batches, lines 284-299.
Listed(a) ==
    IF req.test = "tests"
      THEN /\ Respond([Ok("tests") EXCEPT !.totalTests = Len(a)])
           /\ UNCHANGED syncVars
      ELSE Batches([NoLocals EXCEPT !.tests = a])


-----------------------------------------------------------------------------
(* The state after the module is loaded *)

World(shape, inclusive, auth, trials, queries, requests) ==
    [tests |-> TestsOf(shape, 1, 1), inclusive |-> inclusive, auth |-> auth,
     trials |-> trials, queries |-> queries, requests |-> requests]

NoNet == [issued |-> 0, last |-> 0, pages |-> 0, cur |-> 0]

Loaded ==
    /\ tokenCache = [accessToken |-> NoToken, expiresAt |-> 0]
    /\ env \in [cid : BOOLEAN, sec : BOOLEAN]
    /\ now = 0
    /\ ticks = 0
    /\ nreq = 0
    /\ req = NoQuery
    /\ hpc = "idle"
    /\ startTime = 0
    /\ fib = AllIdle
    /\ tenantId = ""
    /\ profiles = <<>>
    /\ all = <<>>
    /\ cursor = 0
    /\ i = 0
    /\ tests = <<>>
    /\ bi = 0
    /\ processed = 0
    /\ errors = 0
    /\ skipped = 0
    /\ cmj = <<>>
    /\ hop = <<>>
    /\ res = NoRes
    /\ net = NoNet

\* The token endpoints answer with a token of the default lifetime.
SteadyAuth == { [kind |-> "ok", body |-> [access_token |-> "tokA", expires_in |-> Absent]] }

\* The diagnostic modes, with every answer of the token endpoints, over
\* several requests.
Init ==
    /\ Loaded
    /\ world = World(<<>>, TRUE, AuthOutcomes, FewTrialBodies,
                     { q \in AllQueries : q.test \in {"auth", "tenant", "profiles"} },
                     MaxRequests)

\* test=tests over the upstreams of ListShapes.
InitList ==
    /\ Loaded
    /\ world \in { World(sh, inc, SteadyAuth, FewTrialBodies, {Query("GET", "tests", Absent)}, 1) :
                     sh \in ListShapes, inc \in BOOLEAN }

\* The full sync over the upstreams of SyncShapes.
InitSync ==
    /\ Loaded
    /\ world \in { World(sh, TRUE, SteadyAuth, AllTrialBodies, {Query("GET", "", Absent)}, 1) :
                     sh \in SyncShapes }

\* The token endpoints answer with a token that lasts 30 seconds, less than
\* the margin of 60, or refuse.
BriefAuth ==
    { [kind |-> "ok", body |-> [access_token |-> "tokB", expires_in |-> 30]],
      [kind |-> "bad", body |-> NoAuthBody] }

\* The full sync of one full batch and one more test, no token outliving
\* the call it was fetched for.
InitBurst ==
    /\ Loaded
    /\ world = World([k \in 1..(BATCH_SIZE + 1) |-> 1], TRUE, BriefAuth, FewTrialBodies,
                     {Query("GET", "", Absent)}, 1)

\* The codes that decide the type of a test, with two that do not, in an
\* order that puts the hop code last and in one that puts it first.
CodeOrders ==
    { <<"JUMP_HEIGHT_INCHES", "RSI_MODIFIED", "COUNTERMOVEMENT_DEPTH", "BODY_WEIGHT_LBS",
        "HOP_BEST_RSI">>,
      <<"HOP_BEST_RSI", "BODY_WEIGHT_LBS", "COUNTERMOVEMENT_DEPTH", "RSI_MODIFIED",
        "JUMP_HEIGHT_INCHES">> }

\* The results that carry the codes of K in the order given.
ResultsWith(K, order) ==
    LET InK(e) == e.result \in K
    IN  SelectSeq([k \in 1..Len(order) |-> Entry(order[k], "Trial", 0, 30)], InK)

\* One trial for every set of the codes, in either order.
CodedTrialBodies ==
    { Trials(ResultsWith(K, order)) :
        K \in SUBSET { o[k] : o \in CodeOrders, k \in 1..5 }, order \in CodeOrders }

\* The full sync of one test whose trial carries any set of the codes.
InitClassify ==
    /\ Loaded
    /\ world = World(<<1>>, TRUE, SteadyAuth, CodedTrialBodies, {Query("GET", "", Absent)}, 1)

-----------------------------------------------------------------------------
(* Actions *)

\* Time passes.
Tick ==
    /\ ticks < MaxTicks
    /\ \E d \in Deltas : now' = now + d
    /\ ticks' = ticks + 1
    /\ UNCHANGED <<tokenCache, env, world, nreq, req, hpc, startTime, fib, tenantId,
                   profiles, listVars, syncVars, res, net>>

\* A request arrives: lines 157-183, 195, 230, 270, up to the first await.
Request ==
    /\ hpc = "idle"
    /\ nreq < world.requests
    /\ nreq' = nreq + 1
    /\ \E q \in world.queries :
         /\ req' = q
         /\ IF q.method = "OPTIONS"
              THEN /\ Respond(Ok("options"))
                   /\ UNCHANGED startTime
              ELSE /\ startTime' = now
                   /\ res' = NoRes
                   /\ IF q.test = "auth"
                        THEN /\ hpc' = "auth"
                             /\ fib' = [AllIdle EXCEPT ![0] = getToken(IdleFiber)]
                        ELSE /\ hpc' = "tenant"
                             /\ fib' = [AllIdle EXCEPT ![0] = apiFetch(Url("tenants", 0))]
    /\ tenantId' = ""
    /\ profiles' = <<>>
    /\ all' = <<>>
    /\ cursor' = 0
    /\ i' = 0
    /\ tests' = <<>>
    /\ bi' = 0
    /\ processed' = 0
    /\ errors' = 0
    /\ skipped' = 0
    /\ cmj' = <<>>
    /\ hop' = <<>>
    /\ net' = NoNet
    /\ UNCHANGED <<tokenCache, env, now, ticks, world>>

\* A token endpoint answers the getToken() of fiber f: lines 58-69.
AuthResponse(f) ==
    /\ fib[f].pc = "auth"
    /\ \E o \in world.auth :
         /\ tokenCache' = authCache(o)
         /\ fib' = [fib EXCEPT ![f] = Settle(authStep(fib[f], o))]
    /\ UNCHANGED <<env, now, ticks, world, nreq, req, hpc, startTime, tenantId,
                   profiles, listVars, syncVars, res, net>>

\* line 74: the request of the apiFetch() of fiber f is sent
sendRequest(fr) == [fr EXCEPT !.pc = "api", !.sent = @ + 1]

\* apiFetch() of fiber f has its token and sends its request: line 74.
ApiIssue(f) ==
    /\ fib[f].pc = "token"
    /\ fib[f].url.kind # "none"
    /\ fib' = [fib EXCEPT ![f] = sendRequest(fib[f])]
    /\ net' = [issued |-> net.issued + 1,
               last |-> now,
               pages |-> IF fib[f].url.kind = "tests" THEN net.pages + 1 ELSE net.pages,
               cur |-> IF fib[f].url.kind = "tests" THEN fib[f].url.arg ELSE net.cur]
    /\ UNCHANGED <<tokenCache, env, now, ticks, world, nreq, req, hpc, startTime,
                   tenantId, profiles, listVars, syncVars, res>>

\* The API answers the apiFetch() of fiber f: lines 75-77.
ApiResponse(f) ==
    /\ fib[f].pc = "api"
    /\ \E o \in ApiOutcomes(world, fib[f].url) :
         fib' = [fib EXCEPT ![f] = Settle(apiFetchResult(fib[f], o))]
    /\ UNCHANGED <<tokenCache, env, now, ticks, world, nreq, req, hpc, startTime,
                   tenantId, profiles, listVars, syncVars, res, net>>

\* The call handler() awaits has thrown: lines 369-377.
HandlerCatch ==
    /\ hpc \in {"auth", "tenant", "profiles", "tests"}
    /\ fib[0].pc = "err"
    /\ Respond(Failed(fib[0].err))
    /\ UNCHANGED <<tokenCache, env, now, ticks, world, nreq, req, startTime, tenantId,
                   profiles, listVars, syncVars, net>>

\* test=auth: getToken() has returned, lines 169-174.
AuthDone ==
    /\ hpc = "auth"
    /\ fib[0].pc = "token"
    /\ Respond(Ok("auth"))
    /\ UNCHANGED <<tokenCache, env, now, ticks, world, nreq, req, startTime, tenantId,
                   profiles, listVars, syncVars, net>>

\* getTenantId() resumes with the tenants, lines 82-84, and handler() goes
\* on: lines 178-179, 183-184, 230-231, 270-273.
TenantDone ==
    /\ hpc = "tenant"
    /\ fib[0].pc = "ret"
    /\ LET t == fib[0].val.items
       IN  IF Len(t) = 0
             THEN /\ Respond(Failed("No tenants found"))
                  /\ UNCHANGED <<tenantId, listVars, syncVars>>
             ELSE /\ tenantId' = t[1].id
                  /\ IF req.test = "tenant"
                       THEN /\ Respond(Ok("tenant"))
                            /\ UNCHANGED <<listVars, syncVars>>
                     ELSE IF req.test = "tests"
                       THEN Listing(Since(req, TESTS_DEFAULT_START))
                     ELSE /\ Await("profiles", Url("profiles", 0))
                          /\ UNCHANGED <<listVars, syncVars>>
    /\ UNCHANGED <<tokenCache, env, now, ticks, world, nreq, req, startTime, profiles, net>>

\* getProfiles() resumes with the profiles, line 89, and handler() goes on:
\* lines 185-191, 274-284.
ProfilesDone ==
    /\ hpc = "profiles"
    /\ fib[0].pc = "ret"
    /\ profiles' = fib[0].val.items
    /\ IF req.test = "profiles"
         THEN /\ Respond(Ok("profiles"))
              /\ UNCHANGED <<listVars, syncVars>>
         ELSE Listing(Since(req, DEFAULT_START))
    /\ UNCHANGED <<tokenCache, env, now, ticks, world, nreq, req, startTime, tenantId, net>>

\* MorePages without the cap on the iterations
MorePages_NoCap(n) == n # 0 /\ ~(n < PAGE_SIZE)

\* line 95: the loop goes round again after a page of n tests
MorePages(n) == n # 0 /\ ~(n < PAGE_SIZE) /\ i + 1 < MAX_PAGES

\* lastModified reading the first test of the page
lastModified_First(page) == TestAt(world, page[1]).modifiedDateUtc

\* line 100: the cursor after the page
lastModified(page) == TestAt(world, page[Len(page)]).modifiedDateUtc

\* getAllTests() resumes with a page: lines 97-103.
TestsPage ==
    /\ hpc = "tests"
    /\ fib[0].pc = "ret"
    /\ LET page == fib[0].val.items
           a == all \o page
           c == IF Len(page) = 0 THEN cursor ELSE lastModified(page)
       IN  IF MorePages(Len(page))
             THEN /\ all' = a
                  /\ cursor' = c
                  /\ i' = i + 1
                  /\ Await("tests", Url("tests", c))
                  /\ UNCHANGED syncVars
             ELSE /\ all' = a
                  /\ cursor' = c
                  /\ i' = i
                  /\ Listed(a)
    /\ UNCHANGED <<tokenCache, env, now, ticks, world, nreq, req, startTime, tenantId,
                   profiles, net>>

\* BatchSettled resolving with the first getTrials() that settles
BatchSettled_Any == \E f \in 1..BATCH_SIZE : fib[f].pc \in {"ret", "err"}

\* Every getTrials() of the batch has settled.
BatchSettled == \A f \in 1..BATCH_SIZE : fib[f].pc \in {"idle", "ret", "err"}

\* Promise.allSettled resolves: lines 311-334, and on from the top of the
\* loop.
BatchDone ==
    /\ hpc = "batch"
    /\ BatchSettled
    /\ Batches([tallyFrom(Locals, 1, BatchLen(Locals)) EXCEPT !.bi = bi + BATCH_SIZE])
    /\ UNCHANGED <<tokenCache, env, now, ticks, world, nreq, req, startTime, tenantId,
                   profiles, listVars, net>>

Next ==
    \/ Tick
    \/ Request
    \/ \E f \in Fibers : AuthResponse(f)
    \/ \E f \in Fibers : ApiIssue(f)
    \/ \E f \in Fibers : ApiResponse(f)
    \/ HandlerCatch
    \/ AuthDone
    \/ TenantDone
    \/ ProfilesDone

Spec == Init /\ [][Next]_vars

NextList ==
    \/ Tick
    \/ Request
    \/ \E f \in Fibers : AuthResponse(f)
    \/ \E f \in Fibers : ApiIssue(f)
    \/ \E f \in Fibers : ApiResponse(f)
    \/ HandlerCatch
    \/ TenantDone
    \/ TestsPage

SpecList == InitList /\ [][NextList]_vars

NextSync ==
    \/ Tick
    \/ Request
    \/ \E f \in Fibers : AuthResponse(f)
    \/ \E f \in Fibers : ApiIssue(f)
    \/ \E f \in Fibers : ApiResponse(f)
    \/ HandlerCatch
    \/ TenantDone
    \/ ProfilesDone
    \/ TestsPage
    \/ BatchDone

SpecSync == InitSync /\ [][NextSync]_vars

SpecBurst == InitBurst /\ [][NextSync]_vars

SpecClassify == InitClassify /\ [][NextSync]_vars

-----------------------------------------------------------------------------
(* Steps and states the properties speak of *)

\* In this step fiber f enters getToken(): a fiber that was not inside a
\* call now waits for a token endpoint, holds a token, or has thrown.
Entered(f) ==
    /\ fib[f].pc \notin {"auth", "token", "api"}
    /\ fib'[f].pc \in {"auth", "token", "err"}
    /\ fib'[f] # fib[f]

\* The cache holds a token whose expiry is more than 60 seconds away.
FreshToken ==
    tokenCache.accessToken # NoToken /\ tokenCache.expiresAt - now > 60000

\* In this step a token endpoint answers fiber f.
Answered(f) == fib[f].pc = "auth" /\ fib' # fib /\ fib'[f] # fib[f]

\* In this step an apiFetch() sends its request.
Sent == net'.issued > net.issued

Failure == {"bad", "thrown"}

-----------------------------------------------------------------------------
(* Properties *)

\* C1: any two consecutive requests sent through apiFetch during one
\* request are at least 300 ms apart.
C1_Paced ==
    [][Sent /\ net.issued > 0 => now' - net.last >= 300]_vars

\* C2: a 429 is retried once: an apiFetch() call sends at most two
\* requests, and it fails with a 429 only after it has sent the second.
C2_RetryOnce ==
    \A f \in Fibers :
        /\ fib[f].sent <= 2
        /\ fib[f].pc = "err" /\ fib[f].err = "API 429" => fib[f].sent = 2

\* C3 as stated: with a fresh token cached, getToken() returns it and sends
\* nothing; otherwise it sends exactly one token request, to the primary
\* endpoint, and a success caches the new token with expiresAt = now + the
\* reported lifetime (3600 s when none is reported).
C3_ExactlyOneRequest ==
    [][\A f \in Fibers :
         /\ Entered(f) /\ FreshToken =>
               /\ fib'[f].pc = "token"
               /\ fib'[f].token = tokenCache.accessToken
               /\ fib'[f].auths = <<>>
               /\ tokenCache' = tokenCache
         /\ Entered(f) /\ ~FreshToken =>
               fib'[f].auths = <<Asked("AUTH_URL")>>
         /\ Len(fib'[f].auths) <= 1
         /\ Answered(f) /\ fib'[f].pc = "token" =>
               LET b == fib'[f].auths[Len(fib'[f].auths)].body
               IN  tokenCache' =
                     [accessToken |-> b.access_token,
                      expiresAt |-> now + 1000 * (IF b.expires_in = Absent
                                                    THEN 3600 ELSE b.expires_in)]
      ]_vars

\* C3 as amended: with a fresh token cached, getToken() returns it and sends
\* nothing; otherwise, client id and secret being set, it sends one token
\* request to the primary endpoint, and a second only to the secondary
\* endpoint and only after the primary has failed; a success caches the new
\* token with expiresAt = now + the reported lifetime, 3600 s when none or a
\* lifetime of 0 is reported.
C3_TokenReuse ==
    [][\A f \in Fibers :
         /\ Entered(f) /\ FreshToken =>
               /\ fib'[f].pc = "token"
               /\ fib'[f].token = tokenCache.accessToken
               /\ fib'[f].auths = <<>>
               /\ tokenCache' = tokenCache
         /\ Entered(f) /\ ~FreshToken /\ env.cid /\ env.sec =>
               fib'[f].auths = <<Asked("AUTH_URL")>>
         /\ Len(fib'[f].auths) > Len(fib[f].auths) /\ ~Entered(f) =>
               /\ fib[f].auths = <<[fib'[f].auths[1] EXCEPT !.out = "pending",
                                                           !.body = NoAuthBody]>>
               /\ fib'[f].auths[1].out \in Failure
               /\ fib'[f].auths[2] = Asked("AUTH_URL_OLD")
         /\ Answered(f) /\ fib'[f].pc = "token" =>
               LET b == fib'[f].auths[Len(fib'[f].auths)].body
               IN  tokenCache' =
                     [accessToken |-> b.access_token,
                      expiresAt |-> now + 1000 * (IF b.expires_in \in {Absent, 0}
                                                    THEN 3600 ELSE b.expires_in)]
      ]_vars

\* C3 witness: in one request, the call for the tenants was given a token
\* that was not fresh when the call for the profiles came, and that call
\* has been given a new one by the primary endpoint, now cached.
C3_Witness ==
    /\ hpc = "profiles"
    /\ fib[0].pc = "token"
    /\ Len(fib[0].auths) = 1
    /\ fib[0].auths[1].out = "ok"
    /\ tokenCache.accessToken = fib[0].token
    /\ tokenCache.expiresAt = now + 1000 * 3600

\* C4: the endpoints are asked in the order primary, secondary; the
\* secondary only after the primary has failed; the first success is
\* returned and ends the call; the call fails with the authentication error
\* exactly when both have failed.
C4_Fallback ==
    \A f \in Fibers :
        LET a == fib[f].auths
        IN  /\ Len(a) <= 2
            /\ \A k \in 1..Len(a) : a[k].url = AuthUrls[k]
            /\ Len(a) = 2 => a[1].out \in Failure
            /\ \A k \in 1..Len(a) :
                 a[k].out = "ok" =>
                    /\ k = Len(a)
                    /\ fib[f].pc # "auth"
                    /\ fib[f].token = a[k].body.access_token
            /\ fib[f].err = "Authentication" <=>
                 Len(a) = 2 /\ a[1].out \in Failure /\ a[2].out \in Failure

\* C4 witness: the primary has failed and the secondary's token is returned.
C4_Witness ==
    \E f \in Fibers :
        /\ fib[f].pc = "token"
        /\ Len(fib[f].auths) = 2
        /\ fib[f].auths[1].out = "bad"
        /\ fib[f].auths[2].out = "ok"
        /\ fib[f].token = fib[f].auths[2].body.access_token

\* C5: without a fresh token cached and with the client id or the secret
\* missing, getToken() throws the configuration error at once: no token
\* request and no API request is sent and the cache stays as it was.
C5_ConfigFirst ==
    [][\A f \in Fibers :
         Entered(f) /\ ~FreshToken /\ (~env.cid \/ ~env.sec) =>
            /\ fib'[f].pc = "err"
            /\ fib'[f].err = "Missing VALD"
            /\ fib'[f].auths = <<>>
            /\ fib'[f].sent = 0
            /\ ~Sent
            /\ tokenCache' = tokenCache
      ]_vars

\* C5 witness: a call has thrown the configuration error, the secret
\* missing.
C5_Witness ==
    \E f \in Fibers :
        /\ fib[f].pc = "err"
        /\ fib[f].err = "Missing VALD"
        /\ env.cid /\ ~env.sec


\* In this step getAllTests() sends the request for a page.
PageSent == net'.pages > net.pages

\* In this step getAllTests() resumes with the page it waited for.
PageArrived == hpc = "tests" /\ fib[0].pc = "ret" /\ fib'[0] # fib[0]

\* C6: the listing sends at most 100 page requests, and it goes on to
\* another page only while every page so far was a full one of 50 tests:
\* the first empty or short page ends it.
C6_ListingBounded ==
    /\ net.pages <= 100
    /\ hpc = "tests" =>
         /\ i < 100
         /\ net.pages <= i + 1
         /\ Len(all) = 50 * i

\* C6 witness: an upstream that always answers with a full page has been
\* asked 100 times and the listing has returned its 5000 tests.
C6_Witness ==
    /\ hpc = "idle"
    /\ res.kind = "tests"
    /\ net.pages = 100
    /\ res.totalTests = 5000

\* C7: a page iteration is begun only while no more than 52 s have passed
\* since the request started.
C7_DeadlineChecked ==
    [][hpc' = "tests" /\ (hpc # "tests" \/ i' # i) => ~(now - startTime > 52000)]_vars

\* C8 as stated: after each page the cursor is the modified timestamp of
\* the last test of the page, and every page request carries a cursor
\* strictly greater than the request before it.
C8_CursorStrictlyIncreasing ==
    [][/\ PageArrived /\ fib[0].val.items # <<>> =>
            cursor' = world.tests[fib[0].val.items[Len(fib[0].val.items)]].modifiedDateUtc
       /\ PageSent /\ net.pages > 0 => net'.cur > net.cur
      ]_vars

\* C8 as amended: after each non-empty page the cursor is the modified
\* timestamp of the last test of the page, and every page request carries a
\* cursor greater than or equal to that of the request before it, the
\* upstream answering with tests modified at or after the cursor in
\* ascending order.
C8_CursorNeverDecreases ==
    [][/\ PageArrived /\ fib[0].val.items # <<>> =>
            cursor' = world.tests[fib[0].val.items[Len(fib[0].val.items)]].modifiedDateUtc
       /\ PageSent => net'.cur = cursor
       /\ PageSent /\ net.pages > 0 => net'.cur >= net.cur
      ]_vars

\* C8 witness: a full page of tests of one time was followed by a page asked
\* from that time, which brought the one later test and ended the listing.
C8_Witness ==
    /\ hpc = "idle"
    /\ res.kind = "tests"
    /\ net.pages = 2
    /\ net.cur = 2
    /\ cursor = 3
    /\ res.totalTests = 51

\* The getTrials() of fiber f has settled.
Settled(f) == fib[f].url.kind = "trials" /\ fib[f].pc \in {"ret", "err"}

\* C9: whatever ends the apiFetch() under a getTrials() -- missing
\* credentials, a refusal of both token endpoints, a status other than 200
\* and 204, a thrown fetch, a 204 -- the getTrials() promise is fulfilled,
\* with the empty array in each of these cases and with the body otherwise;
\* and the handler, once in the batch loop, leaves it only by the response
\* of the sync, never by its catch.
C9_NeverRaises ==
    /\ [](\A f \in 1..BATCH_SIZE :
            Settled(f) =>
              /\ fib[f].out.status = "fulfilled"
              /\ fib[f].pc = "err" \/ fib[f].val.null => fib[f].out.trials = <<>>
              /\ fib[f].pc = "ret" /\ ~fib[f].val.null =>
                    fib[f].out.trials = fib[f].val.items)
    /\ [][hpc = "batch" => hpc' = "batch" \/ (hpc' = "idle" /\ res'.kind = "sync")]_vars

\* C9 witness: in one batch a getTrials() was refused by both token
\* endpoints and another got an error status from the API; both are
\* fulfilled with the empty array.
C9_Witness ==
    /\ hpc = "batch"
    /\ Settled(1) /\ fib[1].err = "Authentication" /\ fib[1].out.trials = <<>>
    /\ Settled(2) /\ fib[2].err = "API 500" /\ fib[2].out.trials = <<>>
    /\ fib[1].out.status = "fulfilled" /\ fib[2].out.status = "fulfilled"

\* The tests of the batch in flight whose trials failed to arrive or
\* arrived empty.
FailedInBatch ==
    { f \in 1..BatchLen(Locals) : fib[f].pc = "err" \/ Len(fib[f].val.items) = 0 }

\* The tests tallied so far.
Examined == Min(bi, Len(tests))

\* C10: after each batch processed + errors is the number of tests tallied
\* so far; a batch adds to errors one for each of its tests whose trials
\* failed to arrive or arrived empty, and to processed one for each other
\* test; after a batch the handler starts the next batch when tests remain
\* and the deadline has not passed, and otherwise answers 200 with
\* success and the counts reached.
C10_CountedOnce ==
    /\ [](/\ processed + errors = Examined
          /\ res.kind = "sync" =>
                /\ res.status = 200 /\ res.success
                /\ res.processed = processed /\ res.errors = errors
                /\ res.complete = (processed = Len(tests)))
    /\ [][hpc = "batch" /\ bi' # bi =>
            /\ errors' = errors + Cardinality(FailedInBatch)
            /\ processed' = processed + BatchLen(Locals) - Cardinality(FailedInBatch)
            /\ bi' = bi + BATCH_SIZE
            /\ IF bi' < Len(tests) /\ ~(now - startTime > 52000)
                 THEN /\ hpc' = "batch"
                      /\ \A f \in 1..Min(BATCH_SIZE, Len(tests) - bi') :
                            fib'[f].url = Url("trials", world.tests[tests[bi' + f]].testId)
                 ELSE hpc' = "idle" /\ res'.kind = "sync"
       ]_vars

\* C10 witness: three tests were tallied in two batches, one batch had a
\* failure beside a success, and the sync answered 200 with both counts.
C10_Witness ==
    /\ res.kind = "sync" /\ res.status = 200
    /\ Len(tests) = 3
    /\ res.errors >= 1 /\ res.processed >= 1
    /\ res.errors + res.processed = 3
    /\ ~res.complete

\* The getTrials() calls that have been started and have not settled.
InFlight == { f \in 1..BATCH_SIZE : fib[f].pc \in {"auth", "token", "api"} }

\* C11: the group in flight is the next BATCH_SIZE tests (fewer at the
\* end), one getTrials() each, so at most BATCH_SIZE are in flight; the
\* next group is started only in a step in which every getTrials() of the
\* group has settled; and a getTrials() whose fetch fails leaves the other
\* calls of the group as they are.
C11_GroupsInTurn ==
    /\ [](/\ Cardinality(InFlight) <= BATCH_SIZE
          /\ hpc = "batch" =>
                \A f \in 1..BATCH_SIZE :
                  IF f <= Min(BATCH_SIZE, Len(tests) - bi)
                    THEN /\ fib[f].url = Url("trials", world.tests[tests[bi + f]].testId)
                         /\ fib[f].pc # "idle"
                    ELSE fib[f].pc = "idle")
    /\ [][/\ hpc = "batch" /\ bi' # bi =>
              \A f \in 1..Min(BATCH_SIZE, Len(tests) - bi) : Settled(f)
          /\ hpc = "batch" /\ bi' = bi =>
              \A f \in 1..BATCH_SIZE :
                fib[f].pc # "err" /\ fib'[f].pc = "err" =>
                  \A g \in 1..BATCH_SIZE : g # f => fib'[g] = fib[g]
       ]_vars

\* C11 witness: the first group had a failure beside a success, both were
\* tallied, and the second group has its request in flight.
C11_Witness ==
    /\ hpc = "batch"
    /\ bi = BATCH_SIZE
    /\ errors >= 1 /\ processed >= 1
    /\ fib[1].pc = "api"

\* C12 as stated: at no time is more than one request to the API or to a
\* token endpoint awaiting its answer.
C12_Serialized ==
    Cardinality({ f \in Fibers : fib[f].pc \in {"auth", "api"} }) <= 1

\* C13: a batch is started only while no more than 52 s have passed since
\* the request started; the batch in flight when the deadline passes is
\* tallied whole, and the handler then answers 200 with the counts reached
\* and starts no further batch.
C13_DeadlineAtTop ==
    [][/\ hpc' = "batch" /\ (hpc # "batch" \/ bi' # bi) => ~(now - startTime > 52000)
       /\ hpc = "batch" /\ bi' # bi =>
            /\ processed' + errors' = Min(bi + BATCH_SIZE, Len(tests))
            /\ now - startTime > 52000 =>
                  /\ hpc' = "idle"
                  /\ res'.kind = "sync" /\ res'.status = 200
                  /\ res'.processed = processed' /\ res'.errors = errors'
                  /\ res'.totalTests = Len(tests)
      ]_vars

\* C13 witness: the deadline passed while the first batch was in flight;
\* the batch was tallied, the tests after it were not, and the sync
\* answered.
C13_Witness ==
    /\ res.kind = "sync"
    /\ now - startTime > 52000
    /\ bi = BATCH_SIZE /\ bi < Len(tests)
    /\ processed + errors = BATCH_SIZE
    /\ processed >= 1

\* The trials of the test of fiber f arrived and are not empty.
Arrived(f) == fib[f].pc = "ret" /\ Len(fib[f].val.items) > 0

\* trials[0].results of the test of fiber f
ResultsOf(f) == fib[f].val.items[1].results

\* The tests of the batch in flight that arrived with a given type.
Typed(type) ==
    { f \in 1..Min(BATCH_SIZE, Len(tests) - bi) :
        Arrived(f) /\ getTestType(ResultsOf(f)) = type }

\* The cmj tests of the batch in flight with no depth or a depth of zero,
\* and those with a depth other than zero.
HasDepth(f) ==
    LET m == extract(ResultsOf(f), CMJ_MAP)
    IN  "depth" \in DOMAIN m /\ m["depth"] # 0

Squats == { f \in Typed("cmj") : ~HasDepth(f) }

Jumps == { f \in Typed("cmj") : HasDepth(f) }

\* The tests among F of profile pid.
OfProfile(F, pid) == { f \in F : world.tests[tests[bi + f]].profileId = pid }

\* The number of records of pid in a collection.
Count(c, pid) == IF pid \in DOMAIN c THEN Len(c[pid]) ELSE 0

Pids == {"p1", "p2"}

\* C14: a batch adds to skipped one for each of its cmj tests with no depth
\* or a depth of zero, counts each of them as processed and adds no record
\* for them; it adds to a profile's cmj records one for each cmj test of
\* the profile with a depth other than zero, none to its hop records for
\* them, and does not count them as skipped; skipped never exceeds
\* processed.
C14_SquatJumpsSkipped ==
    /\ [](skipped <= processed)
    /\ [][hpc = "batch" /\ bi' # bi =>
            /\ skipped' = skipped + Cardinality(Squats)
            /\ processed' >= processed + Cardinality(Squats) + Cardinality(Jumps)
            /\ \A pid \in Pids :
                  /\ Count(cmj', pid) = Count(cmj, pid) + Cardinality(OfProfile(Jumps, pid))
                  /\ Count(hop', pid) = Count(hop, pid) + Cardinality(OfProfile(Typed("hop"), pid))
       ]_vars

\* C14 witness: of three tests two were squat jumps and one a jump with a
\* depth; the sync answered with two skipped, three processed and one cmj
\* record.
C14_Witness ==
    /\ res.kind = "sync"
    /\ res.skipped = 2 /\ res.processed = 3
    /\ Count(cmj, "p1") + Count(cmj, "p2") = 1
    /\ Count(hop, "p1") + Count(hop, "p2") = 0

\* The codes among the results of the test of fiber f.
KeysOf(f) == { ResultsOf(f)[k].result : k \in 1..Len(ResultsOf(f)) }

\* The tests of the batch in flight that arrived with the hop code, with a
\* cmj code and no hop code, and with neither.
WithHop ==
    { f \in 1..Min(BATCH_SIZE, Len(tests) - bi) : Arrived(f) /\ "HOP_BEST_RSI" \in KeysOf(f) }

WithCmj ==
    { f \in 1..Min(BATCH_SIZE, Len(tests) - bi) :
        /\ Arrived(f)
        /\ "HOP_BEST_RSI" \notin KeysOf(f)
        /\ "RSI_MODIFIED" \in KeysOf(f) \/ "JUMP_HEIGHT_INCHES" \in KeysOf(f) }

WithNeither ==
    { f \in 1..Min(BATCH_SIZE, Len(tests) - bi) : Arrived(f) } \ (WithHop \cup WithCmj)

\* The records of a collection.
Total(c) == Count(c, "p1") + Count(c, "p2")

\* C15: a test whose results carry HOP_BEST_RSI is a hop test whatever
\* else they carry; one without it that carries RSI_MODIFIED or
\* JUMP_HEIGHT_INCHES is a cmj test; any other is unknown.  A batch adds a
\* hop record for each hop test and none for any other, adds cmj records
\* only for cmj tests, and counts an unknown test as processed, not as an
\* error.
C15_HopFirst ==
    /\ [](\A f \in 1..BATCH_SIZE :
            hpc = "batch" /\ Arrived(f) =>
              getTestType(ResultsOf(f)) =
                IF f \in WithHop THEN "hop" ELSE IF f \in WithCmj THEN "cmj" ELSE "unknown")
    /\ [][hpc = "batch" /\ bi' # bi =>
            /\ Total(hop') = Total(hop) + Cardinality(WithHop)
            /\ Total(cmj') <= Total(cmj) + Cardinality(WithCmj)
            /\ Total(cmj') + skipped' = Total(cmj) + skipped + Cardinality(WithCmj)
            /\ errors' = errors + Cardinality(FailedInBatch)
            /\ processed' = processed + Cardinality(WithHop) + Cardinality(WithCmj)
                                       + Cardinality(WithNeither)
       ]_vars

\* C15 witness: the one test arrived with trials, carried neither a hop
\* nor a cmj code, and the sync answered with it processed, no error, no
\* skip and no record.
C15_Witness ==
    /\ res.kind = "sync"
    /\ res.totalTests = 1
    /\ res.processed = 1 /\ res.errors = 0 /\ res.skipped = 0
    /\ Total(cmj) = 0 /\ Total(hop) = 0

\* The day a record's date "MM/DD/YYYY" names, as year, month and day.
Year(rec) == DigitsValue(rec.date[3])
Month(rec) == DigitsValue(rec.date[1])
Day(rec) == DigitsValue(rec.date[2])

\* The day of x is not after the day of y.
NotAfter(x, y) ==
    \/ Year(x) < Year(y)
    \/ Year(x) = Year(y) /\ Month(x) < Month(y)
    \/ Year(x) = Year(y) /\ Month(x) = Month(y) /\ Day(x) <= Day(y)

InCalendarOrder(a) == \A k \in 1..(Len(a) - 1) : NotAfter(a[k], a[k + 1])

\* C16: when the sync has answered, the cmj records and the hop records of
\* every profile are in calendar order of their dates, no record after one
\* of a later day.
C16_CalendarOrder ==
    res.kind = "sync" =>
      /\ \A pid \in DOMAIN cmj : InCalendarOrder(cmj[pid])
      /\ \A pid \in DOMAIN hop : InCalendarOrder(hop[pid])

\* C16 witness: profile p1 had its test of 01/02/2026 listed before its
\* test of 12/30/2025, and the answer holds them in the order of the
\* calendar.
C16_Witness ==
    /\ res.kind = "sync"
    /\ Count(cmj, "p1") = 2
    /\ Year(cmj["p1"][1]) = 2025 /\ Month(cmj["p1"][1]) = 12 /\ Day(cmj["p1"][1]) = 30
    /\ Year(cmj["p1"][2]) = 2026 /\ Month(cmj["p1"][2]) = 1 /\ Day(cmj["p1"][2]) = 2

\* C17 as stated: a GET with no test parameter, or with one the handler
\* does not know, sends no request to a token endpoint or to the API and is
\* answered with status 400.
C17_BadRequest ==
    req.method = "GET" /\ req.test = "" =>
      /\ \A f \in Fibers : fib[f].pc \notin {"auth", "api"}
      /\ net.issued = 0
      /\ hpc = "idle" => res.status = 400

\* C18 as stated: the answer of the sync says complete exactly when the
\* batch loop went through all the tests listed, whatever the number of
\* errors.
C18_CompleteIffExamined ==
    res.kind = "sync" => (res.complete <=> bi >= Len(tests))

\* C19 as stated: of the getTrials() calls of one batch at most one has a
\* request to a token endpoint awaiting its answer.
C19_OneExchange ==
    Cardinality({ f \in 1..BATCH_SIZE : fib[f].pc = "auth" }) <= 1

\* C20 as stated: the listing holds no test twice.
C20_NoDuplicates ==
    Cardinality({ all[k] : k \in 1..Len(all) }) = Len(all)


====
